---- MODULE Spec2Model ----
(***************************************************************************)
(* Doll tower game (src/demo/DollTowerGame.py): one game of simulate_game, *)
(* phase by phase.  A GameState is the tower of 9 slots, the small basket, *)
(* the counters and the event log; every method of GameState is one action *)
(* and the steps of simulate_game's loop are actions of their own.         *)
(*                                                                         *)
(* random.choices and random.shuffle read the shared generator of the      *)
(* random module.  Its state rng is the stream of outcomes it will give,   *)
(* chosen freely when the generator is seeded: a draw turns the next       *)
(* outcome into a colour pattern (Draw), a shuffle into a rotation of the  *)
(* basket (Shuffle), and both advance the stream (NextRng).                *)
(*                                                                         *)
(* Spec is one game, simulate_game on a configuration of the interface.    *)
(* BatchSpec is run_simulation from the point where it has built config,   *)
(* on any arguments: the wish check, the loop over the games, the report   *)
(* and the except clause.                                                  *)
(***************************************************************************)
EXTENDS Integers, Sequences, FiniteSets

VARIABLES
    config,        \* the config dict of run_simulation: population, ratios, initial_draw,
                   \* wish_colors, doll_exchange, milk_counts
    max_rounds,    \* simulate_game's max_rounds
    pc,            \* position in simulate_game
    tower,         \* state.tower: slot 0..8 -> doll or None
    small_basket,  \* state.small_basket: sequence of colours
    harvest_dolls, \* state.harvest_dolls
    harvest_gifts, \* state.harvest_gifts
    round_number,  \* state.round_number
    milk_used,     \* state.milk_used
    logs,          \* state.logs
    drawn,         \* number of colours random.choices has returned since GameState.__init__
    rng,           \* the state of the random module's shared generator
    result,        \* the summary simulate_game returns
    total_games,   \* int(total_games) of run_simulation
    game_id,       \* the game_id of the game that runs
    results,       \* run_simulation's results
    all_logs,      \* run_simulation's all_logs
    output,        \* what run_simulation returns
    zero_total_raises  \* random.choices on weights of total 0: it raises ValueError
                       \* (Python 3.9 and later) or returns the population's last colour

\* the variables of run_simulation that a game leaves alone
run == <<total_games, game_id, results, all_logs, output, zero_total_raises>>

vars == <<config, max_rounds, pc, tower, small_basket, harvest_dolls, harvest_gifts,
          round_number, milk_used, logs, drawn, rng, result, run>>

----------------------------------------------------------------------------
\* Program constants

\* len(DEFAULT_COLORS)
NumColors == 13
\* [None] * 9
TowerSize == 9

\* Bounds of the model
MaxRounds == 3
MaxInitialDraw == 10
MaxMilk == 2
MaxExchange == 2
\* the generator gives the outcomes 0..MaxRand
MaxRand == 5
\* the games of a batch
MaxGames == 2

----------------------------------------------------------------------------
\* Helpers

Min(a, b) == IF a < b THEN a ELSE b

RECURSIVE SumSeq(_)
SumSeq(s) == IF s = <<>> THEN 0 ELSE Head(s) + SumSeq(Tail(s))

\* DEFAULT_COLORS, by index
Population == [i \in 1..NumColors |-> i]
Colors == 1..NumColors

Slots == 0..(TowerSize - 1)

\* An empty tower slot (None)
None == [color |-> 0, wish_triggered |-> FALSE]

\* {"color": c, "wish_triggered": False}
NewDoll(c) == [color |-> c, wish_triggered |-> FALSE]

\* truthiness of a slot: `if d`
IsDoll(d) == d.color # 0

EmptyTower == [i \in Slots |-> None]

\* sum(1 for d in self.tower if d)
TowerCount(t) == Cardinality({i \in Slots : IsDoll(t[i])})

\* `color in self.wish_colors`
InSeq(x, s) == \E k \in 1..Len(s) : s[k] = x

----------------------------------------------------------------------------
\* Randomness

\* the colours random.choices can return: those of positive weight, in population order
PositiveColors(ratios) == SelectSeq(Population, LAMBDA c : ratios[c] > 0)

\* the outcome the generator gives next
NextOutcome(g) == Head(g)

\* the generator after it has given an outcome
NextRng(g) == Append(Tail(g), (Head(g) + 1) % (MaxRand + 1))

\* the period of the colour pattern outcome u gives over n colours: 1 (one colour),
\* n (all distinct, up to n), then 2, 3, ...
Period(u, n) ==
    LET q == u \div 2 IN
    IF q = 0 THEN 1 ELSE IF q = 1 THEN n ELSE Min(q, n)

\* random.choices(population, weights=ratios, k=k) on outcome u: k colours of positive
\* weight, a pattern that starts at the first or the second of them and repeats with
\* period Period(u, n).  Where no weight is positive (and the call does not raise),
\* bisect finds the last index every time: k times the population's last colour.
Draw(ratios, k, u) ==
    IF k <= 0 THEN <<>>
    ELSE LET pos == PositiveColors(ratios)
             n == Len(pos)
         IN IF n = 0
            THEN [j \in 1..k |-> Population[NumColors]]
            ELSE [j \in 1..k |-> pos[(((u % 2) + ((j - 1) % Period(u, n))) % n) + 1]]

\* random.choices raises ValueError('Total of weights must be greater than zero')
ChoicesRaises(ratios) == zero_total_raises /\ PositiveColors(ratios) = <<>>

\* s rotated left by r
Rotate(s, r) == [j \in 1..Len(s) |-> s[((j - 1 + r) % Len(s)) + 1]]

\* random.shuffle(self.small_basket) on outcome u: a permutation of the basket, here
\* one of its rotations
Shuffle(b, u) == IF b = <<>> THEN <<>> ELSE Rotate(b, u % Len(b))

----------------------------------------------------------------------------
\* GameState

\* log_event: one row of state.logs, but for the picture of the tower (tower_str()).  The phase names are put in English; the numbers of the event text
\* stand for the text, and where two texts of a phase have the same numbers, a last
\* number tells them apart.
LogEvent(phase, rn, t, b, hd, hg, event) ==
    [game |-> game_id, round |-> rn, phase |-> phase, basket |-> Len(b),
     harvest_dolls |-> hd, harvest_gifts |-> hg, tower_count |-> TowerCount(t),
     event |-> event]

\* a variant of InitialBasket that puts the whole draw in the basket
InitialBasket_All(initial) == initial

\* a variant of InitialTower that seeds the tower from its last slot down
InitialTower_Top(initial) ==
    [i \in Slots |-> IF TowerSize - i <= Min(TowerSize, Len(initial))
                     THEN NewDoll(initial[TowerSize - i]) ELSE None]

\* GameState.__init__: the first 9 of the initial draw go to the tower, the rest
\* to the basket
InitialTower(initial) ==
    [i \in Slots |-> IF i < Min(TowerSize, Len(initial)) THEN NewDoll(initial[i + 1]) ELSE None]

InitialBasket(initial) == SubSeq(initial, TowerSize + 1, Len(initial))

GameStateInit ==
    /\ pc = "init"
    /\ IF ChoicesRaises(config.ratios)
       THEN /\ pc' = "raised"
            /\ UNCHANGED <<tower, small_basket, drawn, logs, rng, harvest_dolls,
                           harvest_gifts, round_number, milk_used>>
       ELSE /\ LET initial == Draw(config.ratios, config.initial_draw, NextOutcome(rng)) IN
                 /\ tower' = InitialTower(initial)
                 /\ small_basket' = InitialBasket(initial)
                 /\ drawn' = 0
                 /\ logs' = <<LogEvent("init", 0, InitialTower(initial),
                                       InitialBasket(initial), 0, 0, <<Len(initial)>>)>>
            /\ rng' = NextRng(rng)
            /\ harvest_dolls' = 0
            /\ harvest_gifts' = 0
            /\ round_number' = 0
            /\ milk_used' = 0
            /\ pc' = "loop"
    /\ UNCHANGED <<run, config, max_rounds, result>>

\* a variant of WishCountOf that counts the triggered dolls too
WishCountOf_All(t, color) ==
    Cardinality({i \in Slots : IsDoll(t[i]) /\ t[i].color = color})

\* process_wish: the untriggered wish dolls, counted per wish colour
WishCountOf(t, color) ==
    Cardinality({i \in Slots : IsDoll(t[i]) /\ t[i].color = color /\ ~t[i].wish_triggered})

WishCount(t, wish_colors) ==
    SumSeq([k \in 1..Len(wish_colors) |-> WishCountOf(t, wish_colors[k])])

\* process_wish: every doll of a wish colour is marked triggered
MarkWish(t, wish_colors) ==
    [i \in Slots |-> IF IsDoll(t[i]) /\ InSeq(t[i].color, wish_colors)
                     THEN [t[i] EXCEPT !.wish_triggered = TRUE]
                     ELSE t[i]]

ProcessWish ==
    /\ pc = "wish"
    /\ LET wish_count == WishCount(tower, config.wish_colors) IN
         IF wish_count > 0
         THEN LET new_dolls == Draw(config.ratios, wish_count, NextOutcome(rng)) IN
                /\ tower' = MarkWish(tower, config.wish_colors)
                /\ rng' = NextRng(rng)
                /\ small_basket' = small_basket \o new_dolls
                /\ drawn' = drawn + Len(new_dolls)
                /\ logs' = Append(logs, LogEvent("wish", round_number, tower',
                                                 small_basket', harvest_dolls,
                                                 harvest_gifts, <<wish_count>>))
         ELSE UNCHANGED <<tower, small_basket, drawn, logs, rng>>
    /\ pc' = "groups"
    /\ UNCHANGED <<run, config, max_rounds, harvest_dolls, harvest_gifts, round_number,
                   milk_used, result>>

\* process_groups: groups = [(0, 3, 3), (3, 5, 2), (5, 7, 2), (7, 9, 2)]
Groups == <<[start |-> 0, end |-> 3], [start |-> 3, end |-> 5],
            [start |-> 5, end |-> 7], [start |-> 7, end |-> 9]>>

GroupSlots(idx) == Groups[idx].start..(Groups[idx].end - 1)

GroupSize(idx) == Groups[idx].end - Groups[idx].start

\* a variant of GroupFires without the `None in group` check
GroupFires_NoneIgnored(t, idx) ==
    Cardinality({t[i].color : i \in {j \in GroupSlots(idx) : IsDoll(t[j])}}) = 1

\* `None in group` is false and the group's dolls have one colour
GroupFires(t, idx) ==
    /\ \A i \in GroupSlots(idx) : IsDoll(t[i])
    /\ Cardinality({t[i].color : i \in GroupSlots(idx)}) = 1

\* for i in range(start, end): self.tower[i] = None
ClearGroup(t, idx) == [i \in Slots |-> IF i \in GroupSlots(idx) THEN None ELSE t[i]]

\* the body of process_groups' loop for a group that fires, on
\* st = [tower, basket, dolls, drawn, logs, rng]
HarvestGroup(st, idx) ==
    LET new_dolls == Draw(config.ratios, GroupSize(idx), NextOutcome(st.rng)) IN
    [tower |-> ClearGroup(st.tower, idx),
     basket |-> st.basket \o new_dolls,
     dolls |-> st.dolls + GroupSize(idx),
     drawn |-> st.drawn + Len(new_dolls),
     logs |-> Append(st.logs,
                     LogEvent("group", round_number, ClearGroup(st.tower, idx),
                              st.basket \o new_dolls, st.dolls + GroupSize(idx),
                              harvest_gifts, <<idx, GroupSize(idx), Len(new_dolls)>>)),
     rng |-> NextRng(st.rng)]

\* one iteration of process_groups' loop
GroupStep(st, idx) == IF GroupFires(st.tower, idx) THEN HarvestGroup(st, idx) ELSE st

\* process_groups: the loop's four iterations, one after the other
ProcessGroups ==
    /\ pc = "groups"
    /\ \E st1 \in {GroupStep([tower |-> tower, basket |-> small_basket,
                              dolls |-> harvest_dolls, drawn |-> drawn, logs |-> logs,
                              rng |-> rng], 1)} :
       \E st2 \in {GroupStep(st1, 2)} :
       \E st3 \in {GroupStep(st2, 3)} :
       \E st4 \in {GroupStep(st3, 4)} :
         /\ tower' = st4.tower
         /\ small_basket' = st4.basket
         /\ harvest_dolls' = st4.dolls
         /\ drawn' = st4.drawn
         /\ logs' = st4.logs
         /\ rng' = st4.rng
    /\ pc' = "duplicates"
    /\ UNCHANGED <<run, config, max_rounds, harvest_gifts, round_number, milk_used, result>>

\* process_duplicates: color_counts[color]
ColorCount(t, c) == Cardinality({i \in Slots : IsDoll(t[i]) /\ t[i].color = c})

\* removed_colors = {color for color, count in color_counts.items() if count >= 2}
RemovedColors(t) == {c \in Colors : ColorCount(t, c) >= 2}

\* a variant of TotalReplenish that replenishes count, not count - 1
TotalReplenish_Count(t) ==
    SumSeq([c \in 1..NumColors |-> IF ColorCount(t, c) >= 2 THEN ColorCount(t, c) ELSE 0])

\* total_replenish = sum((count - 1) for color, count in color_counts.items() if count >= 2)
TotalReplenish(t) ==
    SumSeq([c \in 1..NumColors |-> IF ColorCount(t, c) >= 2 THEN ColorCount(t, c) - 1 ELSE 0])

\* the tower after the removal loop
RemoveDuplicates(t) ==
    [i \in Slots |-> IF IsDoll(t[i]) /\ t[i].color \in RemovedColors(t) THEN None ELSE t[i]]

\* a variant of Removed that counts one doll less for every removed colour
Removed_Excess(t) ==
    Cardinality({i \in Slots : IsDoll(t[i]) /\ t[i].color \in RemovedColors(t)})
        - Cardinality(RemovedColors(t))

\* removed: the slots the removal loop clears
Removed(t) == Cardinality({i \in Slots : IsDoll(t[i]) /\ t[i].color \in RemovedColors(t)})

ProcessDuplicates ==
    /\ pc = "duplicates"
    /\ \E removed \in {Removed(tower)}, total_replenish \in {TotalReplenish(tower)} :
         /\ tower' = RemoveDuplicates(tower)
         /\ IF removed > 0
            THEN \E new_dolls \in {Draw(config.ratios, total_replenish, NextOutcome(rng))} :
                   /\ harvest_dolls' = harvest_dolls + removed
                   /\ small_basket' = small_basket \o new_dolls
                   /\ drawn' = drawn + Len(new_dolls)
                   /\ logs' = Append(logs, LogEvent("duplicate", round_number, tower',
                                                    small_basket', harvest_dolls',
                                                    harvest_gifts,
                                                    <<removed, total_replenish>>))
                   /\ rng' = NextRng(rng)
            ELSE UNCHANGED <<harvest_dolls, small_basket, drawn, logs, rng>>
    /\ pc' = "special"
    /\ UNCHANGED <<run, config, max_rounds, harvest_gifts, round_number, milk_used, result>>

\* a variant of SpecialGift that asks for 6 dolls of distinct colours or more
SpecialGift_AtLeast6(t) ==
    /\ TowerCount(t) >= 6
    /\ Cardinality({t[i].color : i \in {j \in Slots : IsDoll(t[j])}}) = TowerCount(t)

\* a variant of SpecialGift that asks for distinct colours only
SpecialGift_Distinct(t) ==
    Cardinality({t[i].color : i \in {j \in Slots : IsDoll(t[j])}}) = TowerCount(t)

\* process_special_gift: len(dolls) == 9 and len(set(d["color"] for d in dolls)) == 9
SpecialGift(t) ==
    /\ TowerCount(t) = 9
    /\ Cardinality({t[i].color : i \in {j \in Slots : IsDoll(t[j])}}) = 9

\* the two events of a gift: 1 gift won, 9 dolls poured into the harvest
ProcessSpecialGift ==
    /\ pc = "special"
    /\ IF SpecialGift(tower)
       THEN /\ harvest_gifts' = harvest_gifts + 1
            /\ harvest_dolls' = harvest_dolls + 9
            /\ tower' = EmptyTower
            /\ logs' = logs \o
                  <<LogEvent("gift", round_number, tower, small_basket, harvest_dolls,
                             harvest_gifts', <<1>>),
                    LogEvent("gift", round_number, tower', small_basket, harvest_dolls',
                             harvest_gifts', <<9>>)>>
       ELSE UNCHANGED <<harvest_gifts, harvest_dolls, tower, logs>>
    /\ pc' = "refill"
    /\ UNCHANGED <<run, config, max_rounds, small_basket, round_number, milk_used, drawn, rng,
                   result>>

\* the number of empty slots below slot i, plus one: the position in the iterator of
\* the doll that slot i is given
Rank(t, i) == Cardinality({j \in Slots : j < i /\ ~IsDoll(t[j])}) + 1

\* a variant of RefillPlace that places every doll of the tower anew
RefillPlace_Reset(t, shuffled) ==
    [i \in Slots |-> IF ~IsDoll(t[i])
                     THEN IF Rank(t, i) <= Len(shuffled)
                          THEN NewDoll(shuffled[Rank(t, i)]) ELSE t[i]
                     ELSE NewDoll(t[i].color)]

\* refill_tower: the empty slots take the shuffled basket's front, in ascending order
RefillPlace(t, shuffled) ==
    [i \in Slots |-> IF ~IsDoll(t[i]) /\ Rank(t, i) <= Len(shuffled)
                     THEN NewDoll(shuffled[Rank(t, i)])
                     ELSE t[i]]

\* a variant of Filled that counts the whole basket as placed
Filled_Basket(t, shuffled) == Len(shuffled)

\* filled
Filled(t, shuffled) == Min(TowerSize - TowerCount(t), Len(shuffled))

RefillTower ==
    /\ pc = "refill"
    /\ IF small_basket = <<>>
       THEN UNCHANGED <<tower, small_basket, logs, rng>>
       ELSE LET shuffled == Shuffle(small_basket, NextOutcome(rng)) IN
              /\ tower' = RefillPlace(tower, shuffled)
              /\ rng' = NextRng(rng)
              /\ small_basket' = SubSeq(shuffled, Filled(tower, shuffled) + 1, Len(shuffled))
              /\ logs' = IF Filled(tower, shuffled) > 0
                         THEN Append(logs, LogEvent("refill", round_number, tower',
                                                    small_basket', harvest_dolls,
                                                    harvest_gifts,
                                                    <<Filled(tower, shuffled)>>))
                         ELSE logs
    /\ pc' = "term"
    /\ UNCHANGED <<run, config, max_rounds, harvest_dolls, harvest_gifts, round_number,
                   milk_used, drawn, result>>

\* a variant of ShouldTerminate without the basket check
ShouldTerminate_NoBasket(t, b, wish_colors) ==
    IF \E i \in Slots : IsDoll(t[i]) /\ InSeq(t[i].color, wish_colors)
                         /\ ~t[i].wish_triggered
    THEN FALSE
    ELSE TowerCount(t) = Cardinality({t[i].color : i \in {j \in Slots : IsDoll(t[j])}})

\* a variant of ShouldTerminate without the wish check
ShouldTerminate_NoWish(t, b, wish_colors) ==
    IF Len(b) > 0 THEN FALSE
    ELSE TowerCount(t) = Cardinality({t[i].color : i \in {j \in Slots : IsDoll(t[j])}})

\* should_terminate
ShouldTerminate(t, b, wish_colors) ==
    IF Len(b) > 0 THEN FALSE
    ELSE IF \E i \in Slots : IsDoll(t[i]) /\ InSeq(t[i].color, wish_colors)
                             /\ ~t[i].wish_triggered
         THEN FALSE
         ELSE TowerCount(t) = Cardinality({t[i].color : i \in {j \in Slots : IsDoll(t[j])}})

\* a variant of MilkCount that reads the first entry every time
MilkCount_First(used, milk_counts) == milk_counts[1]

\* milk_count = self.milk_counts[self.milk_used]
MilkCount(used, milk_counts) == milk_counts[used + 1]

\* a variant of MilkFails without the second early return
MilkFails_Exhausted(used, milk_counts) == used >= Len(milk_counts)

\* apply_milk's two early returns: the schedule is used up, or its next entry is <= 0
MilkFails(used, milk_counts) ==
    \/ used >= Len(milk_counts)
    \/ MilkCount(used, milk_counts) <= 0

\* apply_milk: the empty slots take new_dolls' front, in ascending order
MilkPlace(t, new_dolls) ==
    [i \in Slots |-> IF ~IsDoll(t[i]) /\ Rank(t, i) <= Len(new_dolls)
                     THEN NewDoll(new_dolls[Rank(t, i)])
                     ELSE t[i]]

\* a variant of MilkFilled that counts no doll as placed
MilkFilled_None(t, new_dolls) == 0

\* filled, in apply_milk
MilkFilled(t, new_dolls) == Min(TowerSize - TowerCount(t), Len(new_dolls))

\* apply_milk, called by simulate_game once should_terminate() has returned True
ApplyMilk ==
    /\ pc = "milk"
    /\ IF MilkFails(milk_used, config.milk_counts)
       THEN /\ pc' = "end"
            /\ UNCHANGED <<tower, small_basket, milk_used, drawn, logs, rng>>
       ELSE LET milk_count == MilkCount(milk_used, config.milk_counts)
                new_dolls == Draw(config.ratios, milk_count, NextOutcome(rng)) IN
              /\ tower' = MilkPlace(tower, new_dolls)
              /\ rng' = NextRng(rng)
              /\ small_basket' = small_basket \o
                    SubSeq(new_dolls, MilkFilled(tower, new_dolls) + 1, Len(new_dolls))
              /\ milk_used' = milk_used + 1
              /\ drawn' = drawn + Len(new_dolls)
              /\ logs' = Append(logs, LogEvent("milk", round_number, tower', small_basket',
                                               harvest_dolls, harvest_gifts,
                                               <<milk_used', milk_count>>))
              /\ pc' = "loop"
    /\ UNCHANGED <<run, config, max_rounds, harvest_dolls, harvest_gifts, round_number, result>>

----------------------------------------------------------------------------
\* simulate_game

\* while state.round_number < max_rounds: state.round_number += 1
LoopHead ==
    /\ pc = "loop"
    /\ IF round_number < max_rounds
       THEN /\ round_number' = round_number + 1
            /\ pc' = "wish"
       ELSE /\ pc' = "cap"
            /\ UNCHANGED round_number
    /\ UNCHANGED <<run, config, max_rounds, tower, small_basket, harvest_dolls, harvest_gifts,
                   milk_used, logs, drawn, rng, result>>

\* if state.should_terminate(): ...
TerminationCheck ==
    /\ pc = "term"
    /\ pc' = IF ShouldTerminate(tower, small_basket, config.wish_colors) THEN "milk" ELSE "loop"
    /\ UNCHANGED <<run, config, max_rounds, tower, small_basket, harvest_dolls, harvest_gifts,
                   round_number, milk_used, logs, drawn, rng, result>>

\* a variant of Remaining that finds the tower empty
Remaining_None(t) == 0

\* remaining = sum(1 for d in state.tower if d)
Remaining(t) == TowerCount(t)

\* the end of a game before the break: the tower is emptied into the harvest (the
\* event's last number: 0 for a normal end, 1 for the round cap)
NaturalEnd ==
    /\ pc = "end"
    /\ IF Remaining(tower) > 0
       THEN /\ harvest_dolls' = harvest_dolls + Remaining(tower)
            /\ tower' = EmptyTower
            /\ logs' = Append(logs, LogEvent("end", round_number, tower', small_basket,
                                             harvest_dolls', harvest_gifts,
                                             <<Remaining(tower), 0>>))
       ELSE UNCHANGED <<harvest_dolls, tower, logs>>
    /\ pc' = "exchange"
    /\ UNCHANGED <<run, config, max_rounds, small_basket, harvest_gifts, round_number, milk_used,
                   drawn, rng, result>>

\* the while loop's else: the round cap is reached
CapEnd ==
    /\ pc = "cap"
    /\ IF Remaining(tower) > 0
       THEN /\ harvest_dolls' = harvest_dolls + Remaining(tower)
            /\ tower' = EmptyTower
            /\ logs' = Append(logs, LogEvent("end", round_number, tower', small_basket,
                                             harvest_dolls', harvest_gifts,
                                             <<Remaining(tower), 1>>))
       ELSE UNCHANGED <<harvest_dolls, tower, logs>>
    /\ pc' = "exchange"
    /\ UNCHANGED <<run, config, max_rounds, small_basket, harvest_gifts, round_number, milk_used,
                   drawn, rng, result>>

\* a variant of Exchange that rounds up
Exchange_Ceil(dolls, rate) == (dolls + rate - 1) \div rate

\* exchange = state.harvest_dolls // config["doll_exchange"]
Exchange(dolls, rate) == dolls \div rate

\* final_dolls = state.harvest_dolls % config["doll_exchange"]: the remainder of the
\* floor division, of the sign of the rate
FinalDolls(dolls, rate) == dolls - rate * (dolls \div rate)

NoResult == [dolls |-> -1, gifts |-> -1, rounds |-> -1]

\* run_simulation has not returned
NoOutput == [kind |-> "none"]

\* the exchange; a rate of 0 raises ZeroDivisionError
FinalExchange ==
    /\ pc = "exchange"
    /\ IF config.doll_exchange = 0
       THEN /\ pc' = "raised"
            /\ UNCHANGED <<harvest_gifts, result>>
       ELSE /\ harvest_gifts' = harvest_gifts + Exchange(harvest_dolls, config.doll_exchange)
            /\ result' = [dolls |-> FinalDolls(harvest_dolls, config.doll_exchange),
                          gifts |-> harvest_gifts',
                          rounds |-> round_number]
            /\ pc' = "done"
    /\ UNCHANGED <<run, config, max_rounds, tower, small_basket, harvest_dolls,
                   round_number, milk_used, logs, drawn, rng>>

----------------------------------------------------------------------------
\* The configurations of the model

\* ratios: the first n colours have a positive weight
RatioChoices == { [c \in Colors |-> IF c <= n THEN 1 ELSE 0] : n \in {2, TowerSize} }

\* wish_colors: a selection of the CheckboxGroup; the last colour has weight 0
WishChoices == {<<>>, <<1>>, <<2, 1>>, <<NumColors>>}

\* milk_counts = [int(milk1), int(milk2), int(milk3)]: each entry 0 or positive, the
\* second positive entry other than the first
MilkChoices == { <<m1, m2, m3>> : m1 \in {0, MaxMilk}, m2 \in {0, 1}, m3 \in {0, MaxMilk} }

\* initial_draw: fewer dolls than slots, as many, more
InitialDraws == {3, TowerSize, MaxInitialDraw}

\* the seeds of the generator
Seeds == [1..2 -> 0..MaxRand]

Configs ==
    [population : {Population},
     ratios : RatioChoices,
     initial_draw : InitialDraws,
     wish_colors : WishChoices,
     doll_exchange : {1, MaxExchange},
     milk_counts : MilkChoices]

Init ==
    /\ config \in Configs
    /\ max_rounds = MaxRounds
    /\ pc = "init"
    /\ tower = EmptyTower
    /\ small_basket = <<>>
    /\ harvest_dolls = 0
    /\ harvest_gifts = 0
    /\ round_number = 0
    /\ milk_used = 0
    /\ logs = <<>>
    /\ drawn = 0
    /\ rng \in Seeds
    /\ result = NoResult
    /\ total_games = 1
    /\ game_id = 1
    /\ results = <<>>
    /\ all_logs = <<>>
    /\ output = NoOutput
    /\ zero_total_raises = TRUE

Next ==
    \/ GameStateInit
    \/ LoopHead
    \/ ProcessWish
    \/ ProcessGroups
    \/ ProcessDuplicates
    \/ ProcessSpecialGift
    \/ RefillTower
    \/ TerminationCheck
    \/ ApplyMilk
    \/ NaturalEnd
    \/ CapEnd
    \/ FinalExchange

Spec == Init /\ [][Next]_vars

----------------------------------------------------------------------------
\* run_simulation

\* parse_doll_config: a weight that is not positive becomes 0.0, a positive one is
\* divided by the sum of the positive ones (by 1.0 if there is none).  A ratio is kept
\* as its numerator, the weight; the division changes neither which ratios are positive
\* nor their proportions.
ParseDollConfig(weights) == [c \in Colors |-> IF weights[c] <= 0 THEN 0 ELSE weights[c]]

\* a variant of BadWish that finds every wish colour in population
BadWish_None(wish_colors, population) == 0

\* the first wish colour that is not in population, 0 if there is none
BadWish(wish_colors, population) ==
    LET bad == {k \in 1..Len(wish_colors) : ~InSeq(wish_colors[k], population)}
    IN IF bad = {} THEN 0 ELSE wish_colors[CHOOSE k \in bad : \A j \in bad : k <= j]

\* for color in wish_colors: if color not in population: return error, None
WishCheck ==
    /\ pc = "check"
    /\ IF BadWish(config.wish_colors, config.population) # 0
       THEN /\ output' = [kind |-> "wish_error",
                          color |-> BadWish(config.wish_colors, config.population)]
            /\ pc' = "returned"
       ELSE /\ pc' = "batch"
            /\ UNCHANGED output
    /\ results' = <<>>
    /\ all_logs' = <<>>
    /\ UNCHANGED <<total_games, game_id, zero_total_raises, config, max_rounds, tower,
                   small_basket, harvest_dolls, harvest_gifts, round_number, milk_used,
                   logs, drawn, rng, result>>

\* for game_id in range(1, int(total_games) + 1): simulate_game(game_id, config, max_rounds)
BatchLoop ==
    /\ pc = "batch"
    /\ IF game_id < total_games
       THEN /\ game_id' = game_id + 1
            /\ pc' = "init"
       ELSE /\ pc' = "report"
            /\ UNCHANGED game_id
    /\ UNCHANGED <<total_games, results, all_logs, output, zero_total_raises, config,
                   max_rounds, tower, small_basket, harvest_dolls, harvest_gifts,
                   round_number, milk_used, logs, drawn, rng, result>>

\* results.append([game_id, result["dolls"], result["gifts"], result["rounds"]]);
\* all_logs.extend(logs)
Collect ==
    /\ pc = "done"
    /\ results' = Append(results, <<game_id, result.dolls, result.gifts, result.rounds>>)
    /\ all_logs' = all_logs \o logs
    /\ pc' = "batch"
    /\ UNCHANGED <<total_games, game_id, output, zero_total_raises, config, max_rounds,
                   tower, small_basket, harvest_dolls, harvest_gifts, round_number,
                   milk_used, logs, drawn, rng, result>>

\* the data frames and the file: return tmp_path, df_results
Report ==
    /\ pc = "report"
    /\ output' = [kind |-> "report", df_results |-> results, df_logs |-> all_logs]
    /\ pc' = "returned"
    /\ UNCHANGED <<total_games, game_id, results, all_logs, zero_total_raises, config,
                   max_rounds, tower, small_basket, harvest_dolls, harvest_gifts,
                   round_number, milk_used, logs, drawn, rng, result>>

\* except Exception as e: return error, None
Except ==
    /\ pc = "raised"
    /\ output' = [kind |-> "exception"]
    /\ pc' = "returned"
    /\ UNCHANGED <<total_games, game_id, results, all_logs, zero_total_raises, config,
                   max_rounds, tower, small_basket, harvest_dolls, harvest_gifts,
                   round_number, milk_used, logs, drawn, rng, result>>

\* the 13 weights of the interface: n positive ones, then zeros, and a negative one
WeightChoices ==
    { [c \in Colors |-> IF c <= n THEN 1 ELSE IF c = NumColors THEN -1 ELSE 0] :
        n \in {0, 2, TowerSize} }

\* wish_colors of run_simulation: the last has a colour that is not in population
BatchWishChoices == {<<>>, <<1>>, <<1, NumColors + 1>>}

\* the seeds of the generator in a batch
BatchSeeds == {g \in Seeds : g[1] <= g[2]}

BatchConfigs ==
    [population : {Population},
     ratios : {ParseDollConfig(w) : w \in WeightChoices},
     initial_draw : {-1, 0, 3, MaxInitialDraw},
     wish_colors : BatchWishChoices,
     doll_exchange : {-1, 0, 1, MaxExchange},
     milk_counts : {<<0, 0, 0>>, <<MaxMilk, 0, 1>>}]

\* the arguments that the interface's fields would not give: a wish colour outside
\* DEFAULT_COLORS, no positive weight, and an initial draw, an exchange rate or a number
\* of games below 1
Faults(cfg, n) ==
    {f \in {"wish", "weights", "initial_draw", "doll_exchange", "total_games"} :
        \/ f = "wish" /\ BadWish(cfg.wish_colors, cfg.population) # 0
        \/ f = "weights" /\ PositiveColors(cfg.ratios) = <<>>
        \/ f = "initial_draw" /\ cfg.initial_draw <= 0
        \/ f = "doll_exchange" /\ cfg.doll_exchange <= 0
        \/ f = "total_games" /\ n <= 0}

\* run_simulation once it has built config, on arguments with one such fault at most
BatchInit ==
    /\ config \in BatchConfigs
    /\ max_rounds = MaxRounds
    /\ total_games \in -1..MaxGames
    /\ Cardinality(Faults(config, total_games)) <= 1
    /\ zero_total_raises \in IF PositiveColors(config.ratios) = <<>> THEN BOOLEAN ELSE {TRUE}
    /\ pc = "check"
    /\ tower = EmptyTower
    /\ small_basket = <<>>
    /\ harvest_dolls = 0
    /\ harvest_gifts = 0
    /\ round_number = 0
    /\ milk_used = 0
    /\ logs = <<>>
    /\ drawn = 0
    /\ rng \in BatchSeeds
    /\ result = NoResult
    /\ game_id = 0
    /\ results = <<>>
    /\ all_logs = <<>>
    /\ output = NoOutput

BatchNext ==
    \/ WishCheck
    \/ BatchLoop
    \/ GameStateInit
    \/ LoopHead
    \/ ProcessWish
    \/ ProcessGroups
    \/ ProcessDuplicates
    \/ ProcessSpecialGift
    \/ RefillTower
    \/ TerminationCheck
    \/ ApplyMilk
    \/ NaturalEnd
    \/ CapEnd
    \/ FinalExchange
    \/ Collect
    \/ Report
    \/ Except

BatchSpec == BatchInit /\ [][BatchNext]_vars

----------------------------------------------------------------------------
\* Properties

\* the occupied slots of a tower
Occupied(t) == {i \in Slots : t[i] # None}

\* the slots of tower t that hold a colour of S, summed colour by colour
RECURSIVE SetSum(_, _)
SetSum(S, t) ==
    IF S = {} THEN 0
    ELSE LET c == CHOOSE x \in S : TRUE
         IN Cardinality({i \in Slots : t[i].color = c}) + SetSum(S \ {c}, t)

\* the slots that hold colour c
SlotsOf(t, c) == {i \in Slots : t[i] # None /\ t[i].color = c}

\* the events of a phase in the log
EventsOf(phase) == {k \in 1..Len(logs) : logs[k].phase = phase}

\* the last event of the log is one of this round's phase
LastEvent(phase) ==
    /\ logs # <<>>
    /\ logs[Len(logs)].phase = phase
    /\ logs[Len(logs)].round = round_number

\* C1: doll conservation. Once the game is initialised, at every phase boundary the
\* dolls on the tower, in the basket and harvested are initial_draw plus the dolls
\* drawn since (wish, group and duplicate replenishments, milk).
C1_Conservation ==
    pc # "init" =>
        Cardinality(Occupied(tower)) + Len(small_basket) + harvest_dolls
            = config.initial_draw + drawn

\* a game has ended in which every kind of draw was made
C1_Witness ==
    /\ pc = "done"
    /\ EventsOf("wish") # {}
    /\ EventsOf("group") # {}
    /\ EventsOf("duplicate") # {}
    /\ EventsOf("milk") # {}

\* the three conditions of the termination check, on the current state
BasketEmpty == small_basket = <<>>

NoUntriggeredWish ==
    \A i \in Occupied(tower) :
        (\E k \in 1..Len(config.wish_colors) : config.wish_colors[k] = tower[i].color)
            => tower[i].wish_triggered

DistinctColors ==
    \A i, j \in Occupied(tower) : i # j => tower[i].color # tower[j].color

\* no milk injection is available: the schedule is used up or its next entry is <= 0
NoMilkAvailable ==
    IF milk_used < Len(config.milk_counts)
    THEN config.milk_counts[milk_used + 1] <= 0
    ELSE TRUE

\* C2: natural end. At a round's termination check the game goes on to end in that
\* round, without the cap, exactly if the basket is empty, no wish doll on the tower is
\* untriggered, the tower's colours are distinct and no milk injection is available;
\* any other way to the end of the game is the round cap.
C2_NaturalEnd ==
    [][ /\ pc = "term" =>
              /\ pc' = "milk" <=> (BasketEmpty /\ NoUntriggeredWish /\ DistinctColors)
              /\ pc' # "milk" => pc' = "loop"
        /\ pc = "milk" =>
              /\ BasketEmpty /\ NoUntriggeredWish /\ DistinctColors
              /\ pc' = "end" <=> NoMilkAvailable
              /\ pc' # "end" => pc' = "loop"
        /\ pc' = "end" => pc = "milk"
        /\ pc = "end" => pc' = "exchange" /\ round_number' = round_number
        /\ pc' = "cap" => pc = "loop" /\ round_number >= max_rounds
        /\ pc' = "exchange" => pc \in {"end", "cap"}
      ]_vars

\* a game ends naturally below the cap with a triggered wish doll on the tower
C2_Witness ==
    /\ pc = "end"
    /\ round_number < max_rounds
    /\ \E i \in Occupied(tower) : tower[i].wish_triggered

\* the steps a game has left at most: 8 for every round to come, then the cleanup and
\* the exchange
StepsLeft ==
    LET phase == CASE pc = "wish" -> 8 [] pc = "groups" -> 7 [] pc = "duplicates" -> 6
                   [] pc = "special" -> 5 [] pc = "refill" -> 4 [] pc = "term" -> 3
                   [] pc = "milk" -> 2 [] pc = "loop" -> 1 [] OTHER -> 0
    IN CASE pc = "done" -> 0
         [] pc = "exchange" -> 1
         [] pc \in {"end", "cap"} -> 2
         [] pc = "init" -> 8 * max_rounds + 5
         [] OTHER -> 8 * (max_rounds - round_number) + phase + 3

\* C3: every game terminates with round_number <= max_rounds (a game that is not over
\* has a next step, and every step lowers the number of steps left, which is never
\* negative), and the round cap applies the cleanup of a natural end: the dolls on the
\* tower are added to harvest_dolls and the 9 slots become empty.
C3_Termination ==
    /\ [](pc # "done" => ENABLED Next)
    /\ [](round_number <= max_rounds /\ StepsLeft >= 0)
    /\ [][StepsLeft' < StepsLeft]_vars
    /\ [][(pc \in {"cap", "end"}) =>
            (/\ harvest_dolls' = harvest_dolls + Cardinality(Occupied(tower))
             /\ \A i \in Slots : tower'[i] = None
             /\ small_basket' = small_basket)]_vars

\* the cap has ended a game that had dolls on the tower and in the basket
C3_Witness ==
    /\ pc = "exchange"
    /\ LastEvent("end")
    /\ logs[Len(logs)].event[2] = 1
    /\ round_number = max_rounds
    /\ small_basket # <<>>

\* C4: milk_used starts at 0, only grows, by 1 and only on a successful milk injection,
\* never exceeds the schedule length, and the k-th injection draws exactly the k-th
\* schedule entry's number of dolls.
C4_MilkSchedule ==
    [][ /\ pc = "init" => milk_used' = 0
        /\ milk_used' \in {milk_used, milk_used + 1}
        /\ milk_used' <= Len(config.milk_counts)
        /\ milk_used' = milk_used + 1 =>
              /\ pc = "milk"
              /\ config.milk_counts[milk_used'] > 0
              /\ drawn' - drawn = config.milk_counts[milk_used']
              /\ Cardinality(Occupied(tower')) + Len(small_basket')
                    = Cardinality(Occupied(tower)) + Len(small_basket)
                      + config.milk_counts[milk_used']
        /\ (pc = "milk" /\ milk_used' = milk_used) =>
              UNCHANGED <<tower, small_basket, drawn, logs>>
      ]_vars

\* the whole schedule has been consumed
C4_Witness ==
    /\ pc = "loop"
    /\ milk_used = Len(config.milk_counts)
    /\ config.milk_counts[1] # config.milk_counts[2]

\* the basket after a phase is the basket before it and n colours more
BasketGrows(n) ==
    /\ Len(small_basket') = Len(small_basket) + n
    /\ SubSeq(small_basket', 1, Len(small_basket)) = small_basket

\* the colours that occur on two slots of the tower or more
DuplicateColors == {c \in Colors : Cardinality(SlotsOf(tower, c)) >= 2}

\* C5: Duplicate Resolution clears every slot of each colour that occurs count >= 2
\* times, adds the sum of those counts to harvest_dolls and the sum of (count - 1) to
\* the basket, and leaves the slots of the colours that occur once as they are; when no
\* colour occurs twice, tower, basket and counters are unchanged and no event is logged.
C5_DuplicateResolution ==
    [][ pc = "duplicates" =>
          /\ \A i \in Slots :
                tower'[i] = IF tower[i] # None /\ tower[i].color \in DuplicateColors
                            THEN None ELSE tower[i]
          /\ harvest_dolls' = harvest_dolls + SetSum(DuplicateColors, tower)
          /\ BasketGrows(SetSum(DuplicateColors, tower) - Cardinality(DuplicateColors))
          /\ DuplicateColors = {} =>
                UNCHANGED <<tower, small_basket, harvest_dolls, harvest_gifts, milk_used,
                            round_number, logs>>
      ]_vars

\* the phase has cleared two colours or more and has left dolls on the tower
C5_Witness ==
    /\ pc = "special"
    /\ LastEvent("duplicate")
    /\ logs[Len(logs)].event[1] - logs[Len(logs)].event[2] >= 2
    /\ logs[Len(logs)].event[2] > logs[Len(logs)].event[1] - logs[Len(logs)].event[2]
    /\ Occupied(tower) # {}

\* C6: Special Bonus fires exactly when all 9 slots are occupied and the 9 colours are
\* pairwise distinct; when it fires harvest_gifts grows by 1, harvest_dolls by 9 and the
\* tower is empty afterwards; when it does not, tower, basket and counters are unchanged.
C6_SpecialBonus ==
    [][ pc = "special" =>
          LET fires == logs' # logs IN
          /\ fires <=> (Occupied(tower) = Slots /\ DistinctColors)
          /\ fires => /\ harvest_gifts' = harvest_gifts + 1
                      /\ harvest_dolls' = harvest_dolls + 9
                      /\ \A i \in Slots : tower'[i] = None
          /\ ~fires => UNCHANGED <<tower, small_basket, harvest_dolls, harvest_gifts,
                                   milk_used, round_number>>
      ]_vars

\* the bonus has fired
C6_Witness ==
    /\ pc = "refill"
    /\ LastEvent("gift")
    /\ harvest_gifts >= 1
    /\ Occupied(tower) = {}

\* the index ranges of the four groups: [0,3), [3,5), [5,7), [7,9)
GroupRanges == <<{0, 1, 2}, {3, 4}, {5, 6}, {7, 8}>>

\* the groups that the events logged by this step name
FiredGroups == {logs'[k].event[1] : k \in (Len(logs) + 1)..Len(logs')}

\* C7: Group Match harvests a group exactly if every slot of the group is occupied and
\* its dolls share one colour, so never a group with an Empty slot; for the groups that
\* fire, harvest_dolls grows by the group size, the basket grows by the group size,
\* exactly the group's slots become Empty, and the other slots are unchanged.
C7_GroupMatch ==
    [][ pc = "groups" =>
          LET cleared == UNION {GroupRanges[idx] : idx \in FiredGroups} IN
          /\ FiredGroups \subseteq 1..4
          /\ Len(logs') - Len(logs) = Cardinality(FiredGroups)
          /\ \A idx \in 1..4 :
                idx \in FiredGroups <=>
                    \A i, j \in GroupRanges[idx] :
                        tower[i] # None /\ tower[i].color = tower[j].color
          /\ \A idx \in FiredGroups : \A i \in GroupRanges[idx] : tower[i] # None
          /\ harvest_dolls' = harvest_dolls + Cardinality(cleared)
          /\ BasketGrows(Cardinality(cleared))
          /\ \A i \in Slots : tower'[i] = IF i \in cleared THEN None ELSE tower[i]
      ]_vars

\* two groups have fired next to a group that holds a doll and an Empty slot
C7_Witness ==
    /\ pc = "duplicates"
    /\ LastEvent("group")
    /\ Len(logs) >= 2
    /\ logs[Len(logs) - 1].phase = "group"
    /\ logs[Len(logs) - 1].round = round_number
    /\ \E idx \in 1..4 : \E i, j \in GroupRanges[idx] : tower[i] # None /\ tower[j] = None

\* C8: wish_triggered is set once. A doll whose flag is true keeps it true for as long
\* as it stays on the tower, and a doll comes to the tower with the flag false, placed
\* by the initialisation, the refill or a milk injection.
C8_WishTriggeredSetOnce ==
    [][ \A i \in Slots :
          /\ (tower[i] # None /\ tower'[i] # None) =>
                /\ tower'[i].color = tower[i].color
                /\ tower[i].wish_triggered => tower'[i].wish_triggered
          /\ (tower[i] = None /\ tower'[i] # None) =>
                /\ ~tower'[i].wish_triggered
                /\ pc \in {"init", "refill", "milk"}
      ]_vars

\* a triggered doll has stayed on the tower through a refill and a milk injection
C8_Witness ==
    /\ pc = "loop"
    /\ LastEvent("milk")
    /\ Len(logs) >= 2
    /\ logs[Len(logs) - 1].phase = "refill"
    /\ logs[Len(logs) - 1].round = round_number
    /\ \E i \in Occupied(tower) : tower[i].wish_triggered
    /\ \E i \in Occupied(tower) : ~tower[i].wish_triggered

\* the slots whose doll has a wish colour and is not triggered
UntriggeredWishSlots ==
    {i \in Occupied(tower) :
        /\ tower[i].color \in {config.wish_colors[k] : k \in 1..Len(config.wish_colors)}
        /\ ~tower[i].wish_triggered}

\* C9: Wish Resolution adds to the basket as many colours as there are occupied slots
\* whose doll has a wish colour and is not triggered, each doll counted once; every such
\* doll is triggered afterwards, colours and occupancy of the tower are unchanged; when
\* there is no such doll the phase changes nothing and logs no event.
C9_WishResolution ==
    [][ pc = "wish" =>
          /\ BasketGrows(Cardinality(UntriggeredWishSlots))
          /\ drawn' = drawn + Cardinality(UntriggeredWishSlots)
          /\ \A i \in UntriggeredWishSlots : tower'[i].wish_triggered
          /\ \A i \in Slots : tower'[i].color = tower[i].color
          /\ UntriggeredWishSlots = {} =>
                UNCHANGED <<tower, small_basket, harvest_dolls, harvest_gifts, milk_used,
                            round_number, logs, drawn>>
      ]_vars

\* wish dolls of two colours were counted while a triggered doll stood on the tower
C9_Witness ==
    /\ pc = "groups"
    /\ LastEvent("wish")
    /\ round_number >= 2
    /\ logs[Len(logs)].event[1] >= 2
    /\ Cardinality({i \in Occupied(tower) : tower[i].wish_triggered})
          > logs[Len(logs)].event[1]
    /\ Cardinality({tower[i].color : i \in {j \in Occupied(tower) : tower[j].wish_triggered}})
          = 2

\* the Special Bonus firings of the game, by the log
BonusFirings == Cardinality({k \in EventsOf("gift") : logs[k].event = <<1>>})

\* C10: for a finished game (the exchange rate is positive), the reported gifts are the
\* Special Bonus firings plus harvest_dolls // doll_exchange and the reported dolls are
\* harvest_dolls % doll_exchange, so between 0 and doll_exchange - 1, and the gifts are
\* not negative.
C10_Exchange ==
    pc = "done" =>
        /\ config.doll_exchange > 0
        /\ \E q \in 0..harvest_dolls :
              /\ harvest_dolls = q * config.doll_exchange + result.dolls
              /\ result.gifts = BonusFirings + q
        /\ 0 <= result.dolls
        /\ result.dolls <= config.doll_exchange - 1
        /\ result.gifts >= 0

\* a game with a bonus firing has ended with dolls left over after the exchange
C10_Witness ==
    /\ pc = "done"
    /\ BonusFirings >= 1
    /\ config.doll_exchange > 1
    /\ result.dolls > 0
    /\ result.gifts > BonusFirings

----------------------------------------------------------------------------
\* Properties of run_simulation

\* the colours of the configured palette
Palette == {config.population[k] : k \in 1..Len(config.population)}

\* the wish colours that are selected
WishColors == {config.wish_colors[k] : k \in 1..Len(config.wish_colors)}

\* no game of the batch has been simulated: no GameState, no summary, no event
NoGameSimulated ==
    /\ pc \in {"check", "batch", "init", "report", "returned"}
    /\ logs = <<>>
    /\ results = <<>>
    /\ all_logs = <<>>
    /\ result = NoResult

\* run_simulation has returned an error and no results
ReturnedError == pc = "returned" /\ output.kind \in {"wish_error", "exception"}

\* C11: if a selected wish colour is not in the configured palette, the batch run
\* returns a configuration error and simulates no game: no GameState is created and no
\* summary or event is produced.
C11_WishOutsidePalette ==
    ~(WishColors \subseteq Palette) =>
        /\ NoGameSimulated
        /\ pc \in {"check", "returned"}
        /\ pc = "returned" => output.kind = "wish_error" /\ output.color \notin Palette

\* a batch that would have run games has returned the error
C11_Witness ==
    /\ pc = "returned"
    /\ output.kind = "wish_error"
    /\ total_games >= 1
    /\ config.initial_draw > 0
    /\ config.doll_exchange > 0
    /\ PositiveColors(config.ratios) # <<>>

\* C12, as the specification states it: if initial_draw, doll_exchange or total_games is
\* not positive, the batch run is rejected with an error before any game is simulated,
\* and it returns no results.  run_simulation makes no such check: a game runs on an
\* initial draw of 0, a batch of 0 games returns an empty report, and a rate of 0
\* raises only at the end of the first game.
C12_NonPositiveRejected ==
    (config.initial_draw <= 0 \/ config.doll_exchange <= 0 \/ total_games <= 0) =>
        /\ NoGameSimulated
        /\ pc = "returned" => ReturnedError

\* C13, as the specification states it: a colour that is drawn has a positive weight
\* whenever some weight is positive, and when all weights are zero the draw falls back
\* on the whole palette, so that GameState.__init__ gets its initial_draw colours and
\* the simulation goes on.  On weights of total 0, random.choices raises ValueError or
\* returns the last colour only.
C13_WeightedDrawSupport ==
    /\ PositiveColors(config.ratios) # <<>> =>
          /\ \A i \in Occupied(tower) : config.ratios[tower[i].color] > 0
          /\ \A k \in 1..Len(small_basket) : config.ratios[small_basket[k]] > 0
    /\ (PositiveColors(config.ratios) = <<>> /\ config.doll_exchange # 0) =>
          /\ pc # "raised"
          /\ output.kind # "exception"
          /\ (game_id >= 1 /\ pc # "init") => logs[1].event = <<config.initial_draw>>

\* a batch of one game or more on a valid configuration
ValidBatch == Faults(config, total_games) = {}

\* the dolls of the tower's slots 0..n-1, then those of the basket, as colours
SeededColors(t, b, n) ==
    [k \in 1..(n + Len(b)) |-> IF k <= n THEN t[k - 1].color ELSE b[k - n]]

\* C14: a batch of N >= 1 games on a valid configuration simulates the games 1..N in
\* ascending order and yields their N summaries in that order, with all events
\* concatenated in game order; every game starts from a fresh state (counters 0, a log
\* that has the initialisation only, the first min(9, initial_draw) drawn dolls on the
\* slots 0.. and the rest in the basket) whatever the state the game before it ended
\* in, and no game modifies the configuration, the milk schedule included.
C14_Batch ==
    /\ [](ValidBatch =>
            /\ game_id <= total_games
            /\ Len(results) \in {game_id - 1, game_id}
            /\ \A i \in 1..Len(results) : results[i][1] = i
            /\ \A j, k \in 1..Len(all_logs) : j < k => all_logs[j].game <= all_logs[k].game
            /\ {all_logs[k].game : k \in 1..Len(all_logs)} = 1..Len(results)
            /\ pc = "returned" =>
                  /\ output.kind = "report"
                  /\ Len(output.df_results) = total_games
                  /\ \A i \in 1..total_games : output.df_results[i][1] = i
                  /\ output.df_logs = all_logs)
    /\ [][ValidBatch =>
            /\ config' = config
            /\ game_id' # game_id =>
                  pc = "batch" /\ game_id' = game_id + 1 /\ Len(results) = game_id
            /\ pc = "init" =>
                  LET n == Min(TowerSize, config.initial_draw) IN
                  /\ harvest_dolls' = 0 /\ harvest_gifts' = 0
                  /\ round_number' = 0 /\ milk_used' = 0
                  /\ Len(logs') = 1 /\ logs'[1].phase = "init" /\ logs'[1].game = game_id
                  /\ Occupied(tower') = 0..(n - 1)
                  /\ \A i \in Occupied(tower') : ~tower'[i].wish_triggered
                  /\ SeededColors(tower', small_basket', n)
                        = Draw(config.ratios, config.initial_draw, NextOutcome(rng))
            /\ pc = "done" =>
                  /\ results' = Append(results, <<game_id, result.dolls, result.gifts,
                                                  result.rounds>>)
                  /\ all_logs' = all_logs \o logs
          ]_vars

\* a batch of two games has returned its report; the first game used milk and ended
\* otherwise than the second
C14_Witness ==
    /\ pc = "returned"
    /\ output.kind = "report"
    /\ Len(output.df_results) >= 2
    /\ output.df_results[1][2] # output.df_results[2][2]
    /\ output.df_results[1][4] # output.df_results[2][4]
    /\ \E k \in 1..Len(all_logs) : all_logs[k].game = 1 /\ all_logs[k].phase = "milk"
    /\ config.initial_draw > TowerSize

----------------------------------------------------------------------------
\* Properties of a game, continued

\* C15: a milk injection is attempted only at a termination check whose state has an
\* empty basket, no untriggered wish doll and no duplicate colour; when the injection
\* succeeds the game does not end naturally in that round: the next round starts
\* (round_number + 1, with Wish Resolution first) unless the round cap is reached, and
\* then the cap cleanup runs.
C15_MilkAttempt ==
    [][ /\ pc' = "milk" =>
              pc = "term" /\ BasketEmpty /\ NoUntriggeredWish /\ DistinctColors
        /\ (pc = "milk" /\ milk_used' # milk_used) =>
              /\ pc' = "loop"
              /\ round_number' = round_number
              /\ harvest_dolls' = harvest_dolls
              /\ logs'[Len(logs')].phase = "milk"
        /\ pc = "loop" =>
              IF round_number < max_rounds
              THEN pc' = "wish" /\ round_number' = round_number + 1
              ELSE pc' = "cap" /\ round_number' = round_number
        /\ pc = "cap" =>
              /\ pc' = "exchange"
              /\ harvest_dolls' = harvest_dolls + Cardinality(Occupied(tower))
              /\ Occupied(tower') = {}
      ]_vars

\* an injection has succeeded in the last round and the cap cleanup comes next
C15_Witness ==
    /\ pc = "cap"
    /\ logs[Len(logs)].phase = "milk"
    /\ logs[Len(logs)].round = max_rounds
    /\ Occupied(tower) # {}

\* the slots of tower t and the places of basket b that hold colour c
ColorTotal(t, b, c) ==
    Cardinality({i \in Slots : t[i].color = c}) + Cardinality({k \in 1..Len(b) : b[k] = c})

\* C16: Refill moves exactly min(Empty slots, basket size) dolls from the basket to the
\* tower, onto the lowest Empty slots, each with wish_triggered false; the occupied
\* slots keep colour and flag, the other dolls stay in the basket, so that the colours
\* of tower and basket together are the same as before, and harvest_dolls,
\* harvest_gifts and milk_used are unchanged.
C16_RefillFrame ==
    [][ pc = "refill" =>
          LET empty == Slots \ Occupied(tower)
              n == Min(Cardinality(empty), Len(small_basket))
              placed == Occupied(tower') \ Occupied(tower)
          IN /\ Cardinality(placed) = n
             /\ Len(small_basket') = Len(small_basket) - n
             /\ \A i \in placed : \A j \in empty : j < i => j \in placed
             /\ \A i \in placed : ~tower'[i].wish_triggered
             /\ \A i \in Occupied(tower) : tower'[i] = tower[i]
             /\ \A c \in Colors :
                   ColorTotal(tower', small_basket', c) = ColorTotal(tower, small_basket, c)
             /\ UNCHANGED <<harvest_dolls, harvest_gifts, milk_used>>
      ]_vars

\* a refill has filled the Empty slots of a tower that had dolls and has left dolls in
\* the basket
C16_Witness ==
    /\ pc = "term"
    /\ LastEvent("refill")
    /\ logs[Len(logs)].event[1] < TowerSize
    /\ logs[Len(logs)].event[1] >= 2
    /\ small_basket # <<>>
    /\ \E i \in Occupied(tower) : tower[i].wish_triggered

\* the rounds of the game in which a phase has logged an event
RoundsOf(phase) == {logs[k].round : k \in EventsOf(phase)}

\* C17: in a round in which the Special Bonus fires, neither Group Match nor Duplicate
\* Resolution has harvested a doll: a firing excludes a group or duplicate harvest
\* earlier in the same round.
C17_BonusExcludesHarvest ==
    /\ RoundsOf("gift") \cap RoundsOf("group") = {}
    /\ RoundsOf("gift") \cap RoundsOf("duplicate") = {}
    /\ \A k \in EventsOf("gift") :
          logs[k].event = <<1>> =>
              /\ k >= 2
              /\ logs[k - 1].round < logs[k].round \/ logs[k - 1].phase = "wish"
              /\ logs[k].harvest_dolls = logs[k - 1].harvest_dolls

\* a game has ended in which the bonus fired in a round with a wish replenishment,
\* after a round with a group harvest, and a duplicate harvest came in another round
C17_Witness ==
    /\ pc = "done"
    /\ RoundsOf("duplicate") # {}
    /\ \E r \in RoundsOf("gift") : \E q \in RoundsOf("group") : q < r
    /\ RoundsOf("gift") \cap RoundsOf("wish") # {}

\* the positions of the schedule whose entry is <= 0
NonPositiveEntries ==
    {i \in 1..Len(config.milk_counts) : config.milk_counts[i] <= 0}

\* C18: a failed milk attempt (the schedule is used up or its next entry is <= 0) leaves
\* milk_used, tower and basket as they are and logs no event, and the game ends in that
\* round; so an entry <= 0 at position i is never skipped and no entry after it is
\* consumed in the game, positive or not.
C18_FailedMilk ==
    /\ [](\A i \in NonPositiveEntries : milk_used < i)
    /\ [][ /\ (pc = "milk" /\ NoMilkAvailable) =>
                 /\ UNCHANGED <<milk_used, tower, small_basket, logs>>
                 /\ pc' = "end"
           /\ pc = "end" =>
                 /\ pc' = "exchange"
                 /\ UNCHANGED <<round_number, milk_used, small_basket>>
           /\ pc = "exchange" =>
                 /\ pc' = "done"
                 /\ UNCHANGED <<round_number, milk_used>>
         ]_vars

\* a game has ended on an entry of 0 that a positive entry follows
C18_Witness ==
    /\ pc = "done"
    /\ milk_used = 1
    /\ config.milk_counts[2] <= 0
    /\ config.milk_counts[3] > 0
    /\ result.rounds < max_rounds

\* C19: at the start of every round, that is after the initialisation, after every
\* refill and after every successful milk injection, a basket that is not empty
\* implies a tower of 9 occupied slots: dolls wait in the basket only when the tower
\* has no Empty slot.
C19_BasketImpliesFullTower ==
    pc \in {"loop", "wish", "term", "milk", "cap"} =>
        (small_basket # <<>> => Occupied(tower) = Slots)

\* a milk injection has filled the tower and has put a doll in the basket
C19_Witness ==
    /\ pc = "loop"
    /\ LastEvent("milk")
    /\ small_basket # <<>>
    /\ logs[Len(logs)].tower_count = TowerSize

\* C20: when a game ends naturally, before the round cap forces it, the tower and the
\* basket are empty and harvest_dolls, before the exchange, is the number of dolls
\* drawn in the game (initial_draw, the replenishments and the milk): every doll that
\* was drawn has been harvested, once.
C20_NaturalEndHarvestsAll ==
    [][ /\ pc = "end" =>
              /\ small_basket = <<>>
              /\ Occupied(tower') = {}
              /\ small_basket' = <<>>
              /\ harvest_dolls' = config.initial_draw + drawn'
        /\ pc = "exchange" =>
              /\ harvest_dolls' = harvest_dolls
              /\ UNCHANGED <<tower, small_basket, drawn>>
      ]_vars

\* a game that drew dolls for a group, for duplicates and by milk has ended naturally
\* with dolls on the tower
C20_Witness ==
    /\ pc = "exchange"
    /\ LastEvent("end")
    /\ logs[Len(logs)].event[2] = 0
    /\ harvest_dolls > config.initial_draw
    /\ EventsOf("group") # {}
    /\ EventsOf("duplicate") # {}
    /\ EventsOf("milk") # {}

====
